---- MODULE Spec2Model ----
(***************************************************************************)
(* Office RAG system: the query-time pipeline (guardrails.py,              *)
(* rag_pipeline.py) as a state machine, with its pure functions as         *)
(* operators over strings.                                                 *)
(***************************************************************************)
EXTENDS Integers, Sequences, FiniteSets, TLC

VARIABLES
    settings,         \* config.settings: the fields the pipeline reads
    pc,               \* position of the running call
    question,         \* argument: question
    company_terms,    \* argument: company_terms (None or a list)
    max_tokens,       \* argument of build_context (None or an int)
    chunks,           \* what vector_store.search returned / build_context's argument
    filtered_chunks,  \* query's local filtered_chunks
    context,          \* query's local context
    post,             \* what requests.post did in call_ollama (None before it)
    raw_response,     \* query's local raw_response
    final_response,   \* query's local final_response
    emitted,          \* the dicts query returned during this call
    raised,           \* the exceptions that left query during this call
    nSearch,          \* vector_store.search calls issued during this call
    nGenerate,        \* requests.post calls issued during this call
    trace,            \* the stages this call went through, in order
    ret,              \* return value of the pure function under test
    _pipeline,        \* api_server's global _pipeline (None or an instance)
    handlers,         \* the request handler threads, each inside get_pipeline or idle
    constructed,      \* how many times RAGPipeline() has been evaluated
    returned          \* the instances the calls of get_pipeline have returned

vars == << settings, pc, question, company_terms, max_tokens, chunks,
           filtered_chunks, context, post, raw_response, final_response,
           emitted, raised, nSearch, nGenerate, trace, ret, _pipeline,
           handlers, constructed, returned >>

serverVars == << _pipeline, handlers, constructed, returned >>

----------------------------------------------------------------------------
(* Python values *)

\* Optional[T]: None is the empty tuple, a value v is <<v>>.
None == << >>

Some(v) == << v >>

\* Truthiness of an Optional[list] ("if company_terms:")
TruthyList(o) == o # None /\ o[1] # << >>

\* Truthiness of an Optional[int] ("max_tokens or ...")
TruthyInt(o) == o # None /\ o[1] # 0

\* A dict with string keys is a function; d.get(k, default)
EmptyDict == [k \in {} |-> ""]

DictGet(d, k, default) == IF k \in DOMAIN d THEN d[k] ELSE default

\* Distances and the relevance threshold are counted in hundredths: One is
\* the literal 1 of "1 - settings.relevance_score_threshold".
One == 100

----------------------------------------------------------------------------
(* str methods *)

LowerChar(c) ==
    CASE c = "A" -> "a" [] c = "B" -> "b" [] c = "C" -> "c" [] c = "D" -> "d"
      [] c = "E" -> "e" [] c = "F" -> "f" [] c = "G" -> "g" [] c = "H" -> "h"
      [] c = "I" -> "i" [] c = "J" -> "j" [] c = "K" -> "k" [] c = "L" -> "l"
      [] c = "M" -> "m" [] c = "N" -> "n" [] c = "O" -> "o" [] c = "P" -> "p"
      [] c = "Q" -> "q" [] c = "R" -> "r" [] c = "S" -> "s" [] c = "T" -> "t"
      [] c = "U" -> "u" [] c = "V" -> "v" [] c = "W" -> "w" [] c = "X" -> "x"
      [] c = "Y" -> "y" [] c = "Z" -> "z" [] OTHER -> c

\* s[a-1:b].lower(), a and b counted from 1; the range is halved so that the
\* evaluation of a long string stays shallow
RECURSIVE LowerRange(_, _, _)
LowerRange(s, a, b) ==
    IF a > b THEN ""
    ELSE IF a = b THEN LowerChar(SubSeq(s, a, a))
    ELSE LowerRange(s, a, (a + b) \div 2) \o LowerRange(s, (a + b) \div 2 + 1, b)

\* s.lower()
Lower(s) == LowerRange(s, 1, Len(s))

\* t in s
Contains(s, t) ==
    \E i \in 1..(Len(s) - Len(t) + 1) : SubSeq(s, i, i + Len(t) - 1) = t

\* s[i:].startswith(t), i counted from 1
MatchAt(s, i, t) == i + Len(t) - 1 <= Len(s) /\ SubSeq(s, i, i + Len(t) - 1) = t

WhitespaceChars == { " ", "\t", "\n", "\r", "\f" }

\* re's \w on the characters the questions are built from
WordChars ==
    { "a", "b", "c", "d", "e", "f", "g", "h", "i", "j", "k", "l", "m", "n",
      "o", "p", "q", "r", "s", "t", "u", "v", "w", "x", "y", "z",
      "A", "B", "C", "D", "E", "F", "G", "H", "I", "J", "K", "L", "M", "N",
      "O", "P", "Q", "R", "S", "T", "U", "V", "W", "X", "Y", "Z",
      "0", "1", "2", "3", "4", "5", "6", "7", "8", "9", "_" }

IsWordAt(s, i) == i >= 1 /\ i <= Len(s) /\ SubSeq(s, i, i) \in WordChars

\* re's \b between positions i-1 and i (i in 1..Len(s)+1)
WordBoundary(s, i) == IsWordAt(s, i - 1) # IsWordAt(s, i)

\* s.strip(): from the first to the last character that is no whitespace
Strip(s) ==
    LET kept == { i \in 1..Len(s) : SubSeq(s, i, i) \notin WhitespaceChars }
    IN  IF kept = {} THEN ""
        ELSE SubSeq(s, CHOOSE a \in kept : \A b \in kept : a <= b,
                       CHOOSE a \in kept : \A b \in kept : a >= b)

----------------------------------------------------------------------------
(* guardrails.py *)

OFFICE_KEYWORDS ==
    { "office", "meeting room", "conference room", "facility", "workspace",
      "desk", "parking", "cafeteria", "kitchen", "lobby", "reception",
      "floor", "building", "elevator", "restroom", "break room", "policy",
      "procedure", "guideline", "protocol", "standard", "regulation",
      "compliance", "rule", "handbook", "manual", "reservation", "booking",
      "schedule", "calendar", "appointment", "visitor", "access", "badge",
      "keycard", "security", "equipment", "supply", "supplies", "printer",
      "copier", "scanner", "projector", "whiteboard", "stationery",
      "furniture", "document", "form", "template", "report", "memo",
      "notice", "announcement", "newsletter", "amenity", "amenities",
      "service", "resource", "mail", "mailroom", "cleaning", "maintenance",
      "hvac", "air conditioning", "heating", "dress code", "work hours",
      "working hours", "remote work", "hybrid", "attendance", "leave",
      "holiday", "vacation", "onboarding", "orientation", "fire drill",
      "emergency", "evacuation", "first aid", "safety" }

BLOCKED_TOPICS ==
    { "stock price", "investment", "crypto", "bitcoin", "dating",
      "relationship", "recipe", "cooking", "weather forecast",
      "sports score", "game score", "movie", "tv show", "netflix",
      "politics", "election", "vote", "religion" }

REFUSAL_OUT_OF_SCOPE ==
    "I can only answer questions related to office operations and policies. "
    \o "Please ask me about office facilities, procedures, equipment, or related topics."

\* REFUSAL_NO_CONTEXT reworded so that it holds the marker "i don't have access"
REFUSAL_NO_CONTEXT_NoAccess ==
    "I don't have access to information about this in the current office documentation. "
    \o "The topic may not be covered in the documents that have been loaded."

REFUSAL_NO_CONTEXT ==
    "I don't have information about this in the current office documentation. "
    \o "The topic may not be covered in the documents that have been loaded."

\* r"\b(the|our|my|this)\s+(office|room|building|floor|team|department|company)\b"
PatternPronouns == { "the", "our", "my", "this" }

PatternNouns ==
    { "office", "room", "building", "floor", "team", "department", "company" }

\* the rest of the pattern from position j on: k whitespace characters, a
\* noun, a word boundary
NounAfter(s, j, k) ==
    /\ \A w \in j..(j + k - 1) : SubSeq(s, w, w) \in WhitespaceChars
    /\ \E n \in PatternNouns :
           MatchAt(s, j + k, n) /\ WordBoundary(s, j + k + Len(n))

\* re.search(office_noun_pattern, s) is not None
OfficeNounSearch(s) ==
    \E i \in 1..Len(s) :
        /\ WordBoundary(s, i)
        /\ \E p \in PatternPronouns :
               /\ MatchAt(s, i, p)
               /\ \E k \in 1..(Len(s) - i - Len(p) + 1) : NounAfter(s, i + Len(p), k)

IsBlocked(question_lower) ==
    \E blocked \in BLOCKED_TOPICS : Contains(question_lower, blocked)

HasKeyword(question_lower) ==
    \E keyword \in OFFICE_KEYWORDS : Contains(question_lower, keyword)

\* "if company_terms: for term in company_terms: if term.lower() in question_lower"
HasCompanyTerm(question_lower, terms) ==
    /\ TruthyList(terms)
    /\ \E t \in 1..Len(terms[1]) : Contains(question_lower, Lower(terms[1][t]))

\* is_office_related looking for the office keywords before the blocked topics
is_office_related_KeywordsFirst(q, terms) ==
    LET question_lower == Lower(q) IN
    IF HasKeyword(question_lower) THEN TRUE
    ELSE IF IsBlocked(question_lower) THEN FALSE
    ELSE IF HasCompanyTerm(question_lower, terms) THEN TRUE
    ELSE IF OfficeNounSearch(question_lower) THEN TRUE
    ELSE FALSE

is_office_related(q, terms) ==
    LET question_lower == Lower(q) IN
    IF IsBlocked(question_lower) THEN FALSE
    ELSE IF HasKeyword(question_lower) THEN TRUE
    ELSE IF HasCompanyTerm(question_lower, terms) THEN TRUE
    ELSE IF OfficeNounSearch(question_lower) THEN TRUE
    ELSE FALSE

\* format_guardrail_refusal(question): is_office_related is called with the
\* question alone, so company_terms takes its default, None
format_guardrail_refusal(q) ==
    IF ~ is_office_related(q, None) THEN Some(REFUSAL_OUT_OF_SCOPE) ELSE None

HallucinationMarkers ==
    << "i don't have access", "as an ai", "i cannot browse",
       "i'm not able to", "my training data" >>

\* validate_response looking for the markers in the response as it is written
validate_response_CaseSensitive(response, context_chunks) ==
    IF context_chunks = << >> THEN REFUSAL_NO_CONTEXT
    ELSE IF \E m \in 1..Len(HallucinationMarkers) :
                Contains(response, HallucinationMarkers[m])
         THEN REFUSAL_NO_CONTEXT
    ELSE response

validate_response(response, context_chunks) ==
    IF context_chunks = << >> THEN REFUSAL_NO_CONTEXT
    ELSE IF \E m \in 1..Len(HallucinationMarkers) :
                Contains(Lower(response), HallucinationMarkers[m])
         THEN REFUSAL_NO_CONTEXT
    ELSE response

----------------------------------------------------------------------------
(* rag_pipeline.py *)

\* entry = f"[Source: {source}]\n{text}"
ContextEntry(chunk) ==
    "[Source: " \o DictGet(chunk.metadata, "filename", "Unknown") \o "]\n"
    \o chunk.text

\* ContextParts with "continue" in place of "break": an entry that overflows is
\* skipped and the loop goes on
RECURSIVE ContextPartsContinue(_, _, _, _, _)
ContextPartsContinue(chs, i, context_parts, total_len, limit) ==
    IF i > Len(chs) THEN context_parts
    ELSE LET entry == ContextEntry(chs[i]) IN
         IF total_len + Len(entry) > limit * 4
         THEN ContextPartsContinue(chs, i + 1, context_parts, total_len, limit)
         ELSE ContextPartsContinue(chs, i + 1, Append(context_parts, entry),
                                   total_len + Len(entry), limit)

\* the for loop of build_context from chunk i on: the accepted entries
RECURSIVE ContextParts(_, _, _, _, _)
ContextParts(chs, i, context_parts, total_len, limit) ==
    IF i > Len(chs) THEN context_parts
    ELSE LET entry == ContextEntry(chs[i]) IN
         IF total_len + Len(entry) > limit * 4 THEN context_parts
         ELSE ContextParts(chs, i + 1, Append(context_parts, entry),
                           total_len + Len(entry), limit)

\* sep.join(parts[i-1:]), i counted from 1
RECURSIVE JoinFrom(_, _, _)
JoinFrom(sep, parts, i) ==
    IF i > Len(parts) THEN ""
    ELSE IF i = Len(parts) THEN parts[i]
    ELSE parts[i] \o sep \o JoinFrom(sep, parts, i + 1)

\* sep.join(parts)
Join(sep, parts) == JoinFrom(sep, parts, 1)

build_context(chs, mt) ==
    LET limit == IF TruthyInt(mt) THEN mt[1] ELSE settings.max_context_tokens
    IN  Join("\n\n---\n\n", ContextParts(chs, 1, << >>, 0, limit))

\* What requests.post can do: raise an exception of the requests library, or
\* return a response with a status code and a JSON body.
RequestsConnectionErrors == { "requests.ConnectionError", "requests.ConnectTimeout" }

\* call_ollama on one outcome of requests.post: [raise |-> exception] or
\* [return |-> text]
call_ollama(outcome) ==
    IF "exc" \in DOMAIN outcome
    THEN IF outcome.exc \in RequestsConnectionErrors
         THEN [raise |-> "ConnectionError"]
         ELSE [raise |-> outcome.exc]
    ELSE IF outcome.status_code # 200
         THEN [raise |-> "RuntimeError"]
    ELSE [return |->
            Strip(DictGet(DictGet(outcome.json, "message", EmptyDict),
                          "content", ""))]

\* RelevanceFilter with a strict comparison
RelevanceFilterStrict(chs) ==
    SelectSeq(chs, LAMBDA c : c.distance < One - settings.relevance_score_threshold)

\* the relevance filter of query
RelevanceFilter(chs) ==
    SelectSeq(chs, LAMBDA c : c.distance <= One - settings.relevance_score_threshold)

\* UniqueSources keeping the last occurrence of each source instead of the first
UniqueSourcesKeepLast(sources) ==
    SelectSeq([i \in 1..Len(sources) |->
                  IF \E k \in (i + 1)..Len(sources) : sources[k] = sources[i]
                  THEN "" ELSE sources[i]],
              LAMBDA s : s # "")

\* the loop "for s in sources" from sources[i-1] on (i counted from 1)
RECURSIVE DedupFrom(_, _, _, _)
DedupFrom(sources, i, seen, unique_sources) ==
    IF i > Len(sources) THEN unique_sources
    ELSE IF sources[i] \notin seen
         THEN DedupFrom(sources, i + 1, seen \cup { sources[i] },
                        Append(unique_sources, sources[i]))
         ELSE DedupFrom(sources, i + 1, seen, unique_sources)

\* "Deduplicate while preserving order"
UniqueSources(sources) == DedupFrom(sources, 1, {}, << >>)

SourcesOf(chs) ==
    [i \in 1..Len(chs) |-> DictGet(chs[i].metadata, "filename", "Unknown")]

----------------------------------------------------------------------------
(* Inputs *)

\* longest list vector_store.search returns in the model (retrieval_top_k)
MaxChunks == 3

\* most fragments a question of the guardrail specification is built from
MaxFragments == 3

\* largest max_tokens argument given to build_context
MaxTokensArg == 10

\* request handler threads of the server
NumHandlers == 2

\* requests each handler thread serves
MaxRequests == 2

\* The settings a process may run with: the defaults of config.py, and an
\* environment override (OFFICE_RAG_*) with a tight context budget.
DefaultSettings == [relevance_score_threshold |-> 30, max_context_tokens |-> 1500]

SettingsChoices ==
    { DefaultSettings,
      [relevance_score_threshold |-> 10, max_context_tokens |-> 6] }

Filenames == { "a.pdf" }

Metadatas == { EmptyDict } \cup { [k \in { "filename" } |-> f] : f \in Filenames }

Distances == { 20, 70, 90 }

RECURSIVE SeqsUpTo(_, _)
SeqsUpTo(S, n) ==
    IF n = 0 THEN { << >> }
    ELSE LET shorter == SeqsUpTo(S, n - 1)
         IN  shorter \cup { Append(s, x) : s \in shorter, x \in S }

\* what vector_store.search may return
SearchChunks == [text : { "9 to 5." }, metadata : Metadatas, distance : Distances]

SearchResults == SeqsUpTo(SearchChunks, MaxChunks)

QueryQuestions ==
    { "What is the dress code policy?", "Is Bitcoin covered by office policy?",
      "Tell me about ACME", "hello" }

QueryTerms == { None, Some(<< "Acme" >>) }

\* what requests.post may do
PostOutcomes ==
    { [exc |-> e] :
        e \in { "requests.ConnectionError", "requests.ConnectTimeout",
                "requests.ReadTimeout" } }
    \cup { [status_code |-> 500, json |-> EmptyDict] }
    \cup { [status_code |-> 200, json |-> j] :
             j \in { EmptyDict, [message |-> EmptyDict] } }
    \cup { [status_code |-> 200, json |-> [message |-> [content |-> c]]] :
             c \in { " Business casual.\n",
                     "As an AI, I don't have access to real-time data" } }

----------------------------------------------------------------------------
(* RAGPipeline.query, one action per stage *)

Handlers == 1..NumHandlers

\* the process before any request: "_pipeline: RAGPipeline | None = None"
ServerIdle ==
    /\ _pipeline = None
    /\ handlers = [t \in Handlers |-> [pc |-> "idle", new |-> 0, served |-> 0]]
    /\ constructed = 0
    /\ returned = {}

Locals0 ==
    /\ chunks = << >>
    /\ filtered_chunks = << >>
    /\ context = ""
    /\ post = None
    /\ raw_response = ""
    /\ final_response = ""
    /\ emitted = << >>
    /\ raised = << >>
    /\ nSearch = 0
    /\ nGenerate = 0
    /\ trace = << >>

QueryResult(answer, sources, was_filtered) ==
    [answer |-> answer, sources |-> sources, was_filtered |-> was_filtered]

Init ==
    /\ ServerIdle
    /\ settings \in SettingsChoices
    /\ pc = "idle"
    /\ question = ""
    /\ company_terms = None
    /\ max_tokens = None
    /\ ret = None
    /\ Locals0

\* a caller calls pipeline.query(q, terms)
Call(q, terms) ==
    /\ pc = "idle"
    /\ pc' = "GuardrailCheck"
    /\ question' = q
    /\ company_terms' = terms
    /\ trace' = << "GuardrailCheck" >>
    /\ UNCHANGED << serverVars, settings, max_tokens, chunks, filtered_chunks, context,
                    post, raw_response, final_response, emitted, raised,
                    nSearch, nGenerate, ret >>

\* Step 1: guardrail check
GuardrailCheck ==
    /\ pc = "GuardrailCheck"
    /\ LET refusal == format_guardrail_refusal(question) IN
       IF refusal # None
       THEN /\ emitted' = Append(emitted, QueryResult(refusal[1], << >>, TRUE))
            /\ trace' = Append(trace, "RejectedOutOfScope")
            /\ pc' = "returned"
       ELSE /\ emitted' = emitted
            /\ trace' = Append(trace, "Retrieve")
            /\ pc' = "Retrieve"
    /\ UNCHANGED << serverVars, settings, question, company_terms, max_tokens, chunks,
                    filtered_chunks, context, post, raw_response,
                    final_response, raised, nSearch, nGenerate, ret >>

\* Step 2: chunks = self.vector_store.search(enhanced_query)
Retrieve ==
    /\ pc = "Retrieve"
    /\ \E found \in SearchResults : chunks' = found
    /\ nSearch' = nSearch + 1
    /\ trace' = Append(trace, "RelevanceFilter")
    /\ pc' = "RelevanceFilter"
    /\ UNCHANGED << serverVars, settings, question, company_terms, max_tokens,
                    filtered_chunks, context, post, raw_response,
                    final_response, emitted, raised, nGenerate, ret >>

\* RelevanceFilterStep marking the no-context refusal as filtered
RelevanceFilterStepFiltered ==
    /\ pc = "RelevanceFilter"
    /\ filtered_chunks' = RelevanceFilter(chunks)
    /\ IF filtered_chunks' = << >>
       THEN /\ emitted' = Append(emitted, QueryResult(REFUSAL_NO_CONTEXT, << >>, TRUE))
            /\ trace' = Append(trace, "RejectedNoContext")
            /\ pc' = "returned"
       ELSE /\ emitted' = emitted
            /\ trace' = Append(trace, "Generate")
            /\ pc' = "Generate"
    /\ UNCHANGED << serverVars, settings, question, company_terms, max_tokens, chunks,
                    context, post, raw_response, final_response, raised,
                    nSearch, nGenerate, ret >>

\* RelevanceFilterStep without the early return on an empty filtered list
RelevanceFilterStepNoReturn ==
    /\ pc = "RelevanceFilter"
    /\ filtered_chunks' = RelevanceFilter(chunks)
    /\ trace' = Append(trace, "Generate")
    /\ pc' = "Generate"
    /\ UNCHANGED << serverVars, settings, question, company_terms, max_tokens, chunks,
                    context, post, raw_response, final_response, emitted,
                    raised, nSearch, nGenerate, ret >>

\* the relevance filter and the "if not filtered_chunks" return
RelevanceFilterStep ==
    /\ pc = "RelevanceFilter"
    /\ filtered_chunks' = RelevanceFilter(chunks)
    /\ IF filtered_chunks' = << >>
       THEN /\ emitted' = Append(emitted, QueryResult(REFUSAL_NO_CONTEXT, << >>, FALSE))
            /\ trace' = Append(trace, "RejectedNoContext")
            /\ pc' = "returned"
       ELSE /\ emitted' = emitted
            /\ trace' = Append(trace, "Generate")
            /\ pc' = "Generate"
    /\ UNCHANGED << serverVars, settings, question, company_terms, max_tokens, chunks,
                    context, post, raw_response, final_response, raised,
                    nSearch, nGenerate, ret >>

\* Generate turning a failed call into the no-context refusal
GenerateDowngrade ==
    /\ pc = "Generate"
    /\ context' = build_context(filtered_chunks, None)
    /\ nGenerate' = nGenerate + 1
    /\ \E outcome \in PostOutcomes :
         LET r == call_ollama(outcome) IN
         /\ post' = Some(outcome)
         /\ raw_response' = IF "raise" \in DOMAIN r THEN REFUSAL_NO_CONTEXT ELSE r.return
    /\ trace' = Append(trace, "Validate")
    /\ pc' = "Validate"
    /\ UNCHANGED << serverVars, settings, question, company_terms, max_tokens, chunks,
                    filtered_chunks, final_response, emitted, raised, nSearch,
                    ret >>

\* Generate calling the service again after a failed call
GenerateRetry ==
    /\ pc = "Generate"
    /\ context' = build_context(filtered_chunks, None)
    /\ nGenerate' = nGenerate + 1
    /\ \E outcome \in PostOutcomes :
         LET r == call_ollama(outcome) IN
         /\ post' = Some(outcome)
         /\ IF "raise" \in DOMAIN r
            THEN /\ raw_response' = raw_response
                 /\ trace' = trace
                 /\ pc' = "Generate"
            ELSE /\ raw_response' = r.return
                 /\ trace' = Append(trace, "Validate")
                 /\ pc' = "Validate"
    /\ UNCHANGED << serverVars, settings, question, company_terms, max_tokens, chunks,
                    filtered_chunks, final_response, emitted, raised, nSearch,
                    ret >>

\* Steps 3 and 4: build_context, build_prompt, call_ollama
Generate ==
    /\ pc = "Generate"
    /\ context' = build_context(filtered_chunks, None)
    /\ nGenerate' = nGenerate + 1
    /\ \E outcome \in PostOutcomes :
         LET r == call_ollama(outcome) IN
         /\ post' = Some(outcome)
         /\ IF "raise" \in DOMAIN r
            THEN /\ raised' = Append(raised, r.raise)
                 /\ raw_response' = raw_response
                 /\ trace' = trace
                 /\ pc' = "raised"
            ELSE /\ raised' = raised
                 /\ raw_response' = r.return
                 /\ trace' = Append(trace, "Validate")
                 /\ pc' = "Validate"
    /\ UNCHANGED << serverVars, settings, question, company_terms, max_tokens, chunks,
                    filtered_chunks, final_response, emitted, nSearch, ret >>

\* Step 5: validate_response
Validate ==
    /\ pc = "Validate"
    /\ final_response' = validate_response(raw_response, filtered_chunks)
    /\ trace' = Append(trace, "Done")
    /\ pc' = "Done"
    /\ UNCHANGED << serverVars, settings, question, company_terms, max_tokens, chunks,
                    filtered_chunks, context, post, raw_response, emitted,
                    raised, nSearch, nGenerate, ret >>

\* the sources and the final return
Done ==
    /\ pc = "Done"
    /\ emitted' = Append(emitted,
           QueryResult(final_response,
                       UniqueSources(SourcesOf(filtered_chunks)),
                       FALSE))
    /\ pc' = "returned"
    /\ UNCHANGED << serverVars, settings, question, company_terms, max_tokens, chunks,
                    filtered_chunks, context, post, raw_response,
                    final_response, raised, nSearch, nGenerate, trace, ret >>

\* the caller has the result or the exception; the pipeline is called again
Finish ==
    /\ pc \in { "returned", "raised" }
    /\ pc' = "idle"
    /\ question' = ""
    /\ company_terms' = None
    /\ chunks' = << >>
    /\ filtered_chunks' = << >>
    /\ context' = ""
    /\ post' = None
    /\ raw_response' = ""
    /\ final_response' = ""
    /\ emitted' = << >>
    /\ raised' = << >>
    /\ nSearch' = 0
    /\ nGenerate' = 0
    /\ trace' = << >>
    /\ UNCHANGED << serverVars, settings, max_tokens, ret >>

Next ==
    \/ \E q \in QueryQuestions, terms \in QueryTerms : Call(q, terms)
    \/ GuardrailCheck
    \/ Retrieve
    \/ RelevanceFilterStep
    \/ Generate
    \/ Validate
    \/ Done
    \/ Finish

Spec == Init /\ [][Next]_vars

----------------------------------------------------------------------------
(* Properties of RAGPipeline.query, checked under Spec *)

Running == pc \notin { "idle", "returned", "raised" }

\* the guardrail of query rejects the question of the running call
GuardrailRejected == format_guardrail_refusal(question) # None

\* the relevance filter of this call has run
FilterDone ==
    \/ pc \in { "Generate", "Validate", "Done", "raised" }
    \/ pc = "returned" /\ nSearch = 1

Cutoff == One - settings.relevance_score_threshold

Last(s) == s[Len(s)]

\* C1: every result query emits has was_filtered = true exactly when the
\* guardrail rejected the question; such a result is the out-of-scope refusal
\* with no sources, and a rejected call issues no search and no generation.
C1_FilteredIffRejected ==
    /\ \A i \in 1..Len(emitted) :
          /\ emitted[i].was_filtered <=> GuardrailRejected
          /\ emitted[i].was_filtered =>
                /\ emitted[i].answer = REFUSAL_OUT_OF_SCOPE
                /\ emitted[i].sources = << >>
    /\ (pc \notin { "idle", "GuardrailCheck" } /\ GuardrailRejected) =>
          /\ nSearch = 0
          /\ nGenerate = 0
          /\ pc = "returned"
          /\ Len(emitted) = 1
          /\ emitted[1].was_filtered

C1_Witness ==
    /\ pc = "returned"
    /\ question = "Is Bitcoin covered by office policy?"
    /\ emitted = << QueryResult(REFUSAL_OUT_OF_SCOPE, << >>, TRUE) >>

\* the indexes of the chunks the search returned that are within the cutoff
KeptIndexes == { i \in 1..Len(chunks) : chunks[i].distance <= Cutoff }

\* the j-th smallest element of a set of indexes
Nth(S, j) == CHOOSE i \in S : Cardinality({ k \in S : k < i }) = j - 1

\* C4: the filtered chunks are exactly the chunks the search returned whose
\* distance is at most 1 - threshold (the boundary included), in their order.
C4_FilterExact ==
    FilterDone =>
        /\ Len(filtered_chunks) = Cardinality(KeptIndexes)
        /\ \A j \in 1..Len(filtered_chunks) :
               filtered_chunks[j] = chunks[Nth(KeptIndexes, j)]

C4_Witness ==
    /\ FilterDone
    /\ Len(chunks) = 3
    /\ chunks[1].distance > Cutoff
    /\ chunks[2].distance = Cutoff
    /\ chunks[3].distance < Cutoff
    /\ filtered_chunks = << chunks[2], chunks[3] >>

AtDone == pc = "returned" /\ Last(trace) = "Done"

FilenameOf(c) ==
    IF "filename" \in DOMAIN c.metadata THEN c.metadata.filename ELSE "Unknown"

\* the index of the first filtered chunk with filename f
FirstIndex(f) ==
    CHOOSE i \in 1..Len(filtered_chunks) :
        /\ FilenameOf(filtered_chunks[i]) = f
        /\ \A k \in 1..(i - 1) : FilenameOf(filtered_chunks[k]) # f

\* C5: at Done the sources hold no duplicate, are exactly the filenames (or
\* "Unknown") of the filtered chunks, in the order of first occurrence.
C5_SourcesDedupOrdered ==
    AtDone =>
        LET sources == emitted[1].sources IN
        /\ \A i, j \in 1..Len(sources) : i # j => sources[i] # sources[j]
        /\ { sources[i] : i \in 1..Len(sources) }
             = { FilenameOf(filtered_chunks[i]) : i \in 1..Len(filtered_chunks) }
        /\ \A i, j \in 1..Len(sources) :
               i < j => FirstIndex(sources[i]) < FirstIndex(sources[j])

\* a duplicate filename, a chunk without one, and a context budget that the
\* second and third chunks do not fit into
C5_Witness ==
    /\ AtDone
    /\ Len(filtered_chunks) = 3
    /\ FilenameOf(filtered_chunks[1]) = "a.pdf"
    /\ "filename" \notin DOMAIN filtered_chunks[2].metadata
    /\ FilenameOf(filtered_chunks[3]) = "a.pdf"
    /\ context = ContextEntry(filtered_chunks[1])
    /\ emitted[1].sources = << "a.pdf", "Unknown" >>

NoChunkPasses == \A i \in 1..Len(chunks) : chunks[i].distance > Cutoff

\* C6: an accepted question with no chunk passing the filter ends in the
\* no-context refusal, no sources, was_filtered false, and no generation call.
C6_NoContextRefusal ==
    (FilterDone /\ ~ GuardrailRejected /\ NoChunkPasses) =>
        /\ pc = "returned"
        /\ emitted = << QueryResult(REFUSAL_NO_CONTEXT, << >>, FALSE) >>
        /\ raised = << >>
        /\ nGenerate = 0
        /\ post = None

C6_Witness ==
    /\ pc = "returned"
    /\ ~ GuardrailRejected
    /\ Len(chunks) = 2
    /\ NoChunkPasses
    /\ emitted = << QueryResult(REFUSAL_NO_CONTEXT, << >>, FALSE) >>

\* requests.post failed to connect / answered with a non-200 status
PostConnectionFailure ==
    post # None /\ "exc" \in DOMAIN post[1] /\ post[1].exc = "requests.ConnectionError"

PostNon200 ==
    post # None /\ "status_code" \in DOMAIN post[1] /\ post[1].status_code # 200

\* C7: a connection failure leaves query as ConnectionError and a non-200
\* status as RuntimeError; no result is emitted, no refusal substituted, and
\* neither the generation call nor the search is issued a second time.
C7_FailurePropagates ==
    /\ PostConnectionFailure => pc = "raised" /\ raised = << "ConnectionError" >>
    /\ PostNon200 => pc = "raised" /\ raised = << "RuntimeError" >>
    /\ pc = "raised" =>
          /\ emitted = << >>
          /\ Len(raised) = 1
          /\ nGenerate = 1
          /\ nSearch = 1
          /\ ~ ENABLED Generate
          /\ ~ ENABLED Retrieve

C7_Witness ==
    /\ pc = "raised"
    /\ PostNon200
    /\ raised = << "RuntimeError" >>

\* C8: a failure leaving query is a ConnectionError (ServiceUnreachable) or a
\* RuntimeError (GenerationError), whatever the generation call did.
C8_OnlyTwoFailureKinds ==
    \A i \in 1..Len(raised) : raised[i] \in { "ConnectionError", "RuntimeError" }

StageOrder ==
    << "GuardrailCheck", "Retrieve", "RelevanceFilter", "Generate", "Validate", "Done" >>

EarlyExits == { "RejectedOutOfScope", "RejectedNoContext" }

\* C9: the stages are passed in order, none twice; at most one search and one
\* generation call; a running call is at the stage it entered last, which has
\* a step to take, and a call that ended has exactly one outcome: one result
\* or one failure.
C9_LinearOneOutcome ==
    /\ LET main == SelectSeq(trace, LAMBDA s : s \notin EarlyExits)
       IN  /\ Len(main) <= Len(StageOrder)
           /\ main = SubSeq(StageOrder, 1, Len(main))
    /\ \A i \in 1..Len(trace) : trace[i] \in EarlyExits => i = Len(trace)
    /\ nSearch <= 1
    /\ nGenerate <= 1
    /\ Running =>
          /\ emitted = << >> /\ raised = << >>
          /\ pc = Last(trace)
          /\ \E k \in 1..Len(StageOrder) : pc = StageOrder[k]
    /\ pc = "returned" =>
          /\ Len(emitted) = 1 /\ raised = << >>
          /\ Last(trace) \in EarlyExits \cup { "Done" }
    /\ pc = "raised" => Len(raised) = 1 /\ emitted = << >>

C9_Witness ==
    /\ pc = "returned"
    /\ trace = StageOrder
    /\ nSearch = 1
    /\ nGenerate = 1

\* the question holds no blocked topic and holds one of the company terms
MentionsCompanyTerm ==
    /\ ~ \E b \in BLOCKED_TOPICS : Contains(Lower(question), b)
    /\ company_terms # None
    /\ \E t \in 1..Len(company_terms[1]) :
           Contains(Lower(question), Lower(company_terms[1][t]))

\* C10: a question without blocked topic that holds a supplied company term is
\* not rejected as out of scope: retrieval runs and was_filtered is false.
C10_CompanyTermsUsed ==
    (pc \notin { "idle", "GuardrailCheck" } /\ MentionsCompanyTerm) =>
        /\ nSearch = 1 \/ pc = "Retrieve"
        /\ \A i \in 1..Len(emitted) : ~ emitted[i].was_filtered

----------------------------------------------------------------------------
(* is_office_related called on its own *)

GuardFragments ==
    { "the", "room", "Desk", "bitCoin", "ACME", "my \tteam" }

GuardJoiners == { "", " " }

RECURSIVE GuardQuestions(_)
GuardQuestions(n) ==
    IF n = 0 THEN { "" }
    ELSE LET shorter == GuardQuestions(n - 1)
         IN  shorter \cup { q \o j \o f :
                              q \in shorter, j \in GuardJoiners, f \in GuardFragments }

GuardTerms == { None, Some(<< >>), Some(<< "Acme" >>), Some(<< "HR", "the Rooms" >>) }

GuardInit ==
    /\ ServerIdle
    /\ settings = DefaultSettings
    /\ pc = "call"
    /\ question \in GuardQuestions(MaxFragments)
    /\ company_terms \in GuardTerms
    /\ max_tokens = None
    /\ ret = None
    /\ Locals0

GuardReturn ==
    /\ pc = "call"
    /\ ret' = Some(is_office_related(question, company_terms))
    /\ pc' = "returned"
    /\ UNCHANGED << serverVars, settings, question, company_terms, max_tokens, chunks,
                    filtered_chunks, context, post, raw_response,
                    final_response, emitted, raised, nSearch, nGenerate, trace >>

GuardNext == GuardReturn

GuardSpec == GuardInit /\ [][GuardNext]_vars

QuestionBlocked == \E b \in BLOCKED_TOPICS : Contains(Lower(question), b)

QuestionHasKeyword == \E k \in OFFICE_KEYWORDS : Contains(Lower(question), k)

QuestionHasTerm ==
    /\ company_terms # None
    /\ \E t \in 1..Len(company_terms[1]) :
           Contains(Lower(question), Lower(company_terms[1][t]))

QuestionMatchesPattern == OfficeNounSearch(Lower(question))

\* C3: is_office_related is true exactly when the lower-cased question holds
\* no blocked topic and holds an office keyword, a lower-cased company term or
\* a match of the pronoun-and-noun pattern; a blocked topic alone decides.
C3_ClassifyExact ==
    pc = "returned" =>
        /\ ret[1] <=> (/\ ~ QuestionBlocked
                       /\ \/ QuestionHasKeyword
                          \/ QuestionHasTerm
                          \/ QuestionMatchesPattern)
        /\ QuestionBlocked => ret[1] = FALSE

\* a blocked topic together with a keyword and a company term
C3_Witness ==
    /\ pc = "returned"
    /\ QuestionBlocked
    /\ QuestionHasKeyword
    /\ QuestionHasTerm
    /\ ret = Some(FALSE)

----------------------------------------------------------------------------
(* build_context called on its own *)

ContextChunks ==
    [text : { "", "9 to 5." }, metadata : { EmptyDict, [k \in { "filename" } |-> "a.pdf"] },
     distance : { 20 }]

ContextInit ==
    /\ ServerIdle
    /\ settings \in SettingsChoices
    /\ pc = "call"
    /\ chunks \in SeqsUpTo(ContextChunks, MaxChunks)
    /\ max_tokens \in { None } \cup { Some(n) : n \in 0..MaxTokensArg }
    /\ question = ""
    /\ company_terms = None
    /\ ret = None
    /\ filtered_chunks = << >>
    /\ context = ""
    /\ post = None
    /\ raw_response = ""
    /\ final_response = ""
    /\ emitted = << >>
    /\ raised = << >>
    /\ nSearch = 0
    /\ nGenerate = 0
    /\ trace = << >>

ContextReturn ==
    /\ pc = "call"
    /\ ret' = Some(build_context(chunks, max_tokens))
    /\ pc' = "returned"
    /\ UNCHANGED << serverVars, settings, question, company_terms, max_tokens, chunks,
                    filtered_chunks, context, post, raw_response,
                    final_response, emitted, raised, nSearch, nGenerate, trace >>

ContextNext == ContextReturn

ContextSpec == ContextInit /\ [][ContextNext]_vars

\* the character budget B = max_tokens x 4 of the call
Budget ==
    4 * (IF max_tokens = None THEN settings.max_context_tokens ELSE max_tokens[1])

\* C2: the string build_context returns, separators included, is never longer
\* than the budget B, for every chunk sequence and every B (0 included).
C2_WithinBudget == pc = "returned" => Len(ret[1]) <= Budget

\* the effective budget of the loop, in tokens ("max_tokens or ...")
LoopLimit ==
    IF max_tokens # None /\ max_tokens[1] # 0 THEN max_tokens[1]
    ELSE settings.max_context_tokens

\* the entry of chunk c written out: its source label, then its whole text
LabelledEntry(c) == "[Source: " \o FilenameOf(c) \o "]\n" \o c.text

\* the length of the first n entries together, separators not counted
RECURSIVE EntriesLen(_)
EntriesLen(n) == IF n = 0 THEN 0 ELSE EntriesLen(n - 1) + Len(LabelledEntry(chunks[n]))

\* the first n entries, joined
RECURSIVE JoinedPrefix(_)
JoinedPrefix(n) ==
    IF n = 0 THEN ""
    ELSE IF n = 1 THEN LabelledEntry(chunks[1])
    ELSE JoinedPrefix(n - 1) \o "\n\n---\n\n" \o LabelledEntry(chunks[n])

\* C13: what build_context returns is a prefix of the chunks, in order, each
\* entry whole (label, then the complete text); the prefix ends at the first
\* entry that overflows the loop's budget, and nothing after it is accepted.
C13_AcceptedPrefix ==
    pc = "returned" =>
        \E n \in 0..Len(chunks) :
            /\ ret[1] = JoinedPrefix(n)
            /\ EntriesLen(n) <= LoopLimit * 4
            /\ n < Len(chunks) => EntriesLen(n + 1) > LoopLimit * 4

\* the second chunk overflows and is dropped; the third alone would have fitted
C13_Witness ==
    /\ pc = "returned"
    /\ Len(chunks) = 3
    /\ ret[1] = LabelledEntry(chunks[1])
    /\ EntriesLen(1) + Len(LabelledEntry(chunks[2])) > LoopLimit * 4
    /\ EntriesLen(1) + Len(LabelledEntry(chunks[3])) <= LoopLimit * 4

----------------------------------------------------------------------------
(* validate_response called on its own, twice, beside the calls of query *)

ValidateResponses ==
    { "", "Business casual.", "As an AI, I don't have access to real-time data",
      "That was in MY TRAINING DATA.", "Sorry, I'm not able to say.",
      "I cannot browse the handbook", "I don't have information about this",
      REFUSAL_NO_CONTEXT, REFUSAL_OUT_OF_SCOPE }

ValidateChunkLists == { << >> } \cup { << c >> : c \in SearchChunks }

ValidateInit ==
    /\ ServerIdle
    /\ settings = DefaultSettings
    /\ pc = "validate_call"
    /\ raw_response \in ValidateResponses
    /\ chunks \in ValidateChunkLists
    /\ question = ""
    /\ company_terms = None
    /\ max_tokens = None
    /\ ret = None
    /\ filtered_chunks = << >>
    /\ context = ""
    /\ post = None
    /\ final_response = ""
    /\ emitted = << >>
    /\ raised = << >>
    /\ nSearch = 0
    /\ nGenerate = 0
    /\ trace = << >>

\* final_response = validate_response(raw_response, chunks)
ValidateCall ==
    /\ pc = "validate_call"
    /\ final_response' = validate_response(raw_response, chunks)
    /\ pc' = "validate_once"
    /\ UNCHANGED << serverVars, settings, question, company_terms, max_tokens, chunks,
                    filtered_chunks, context, post, raw_response, emitted,
                    raised, nSearch, nGenerate, trace, ret >>

\* validate_response(final_response, chunks): the validated text validated again
ValidateAgain ==
    /\ pc = "validate_once"
    /\ ret' = Some(validate_response(final_response, chunks))
    /\ pc' = "validate_twice"
    /\ UNCHANGED << serverVars, settings, question, company_terms, max_tokens, chunks,
                    filtered_chunks, context, post, raw_response,
                    final_response, emitted, raised, nSearch, nGenerate, trace >>

ValidateNext == Next \/ ValidateCall \/ ValidateAgain

ValidateInits == Init \/ ValidateInit

ValidateSpec == ValidateInits /\ [][ValidateNext]_vars

HasMarker(response) ==
    \E m \in 1..Len(HallucinationMarkers) :
        Contains(Lower(response), HallucinationMarkers[m])

\* what C11 says validate_response returns
Expected(response, chs) ==
    IF chs = << >> \/ HasMarker(response) THEN REFUSAL_NO_CONTEXT ELSE response

\* validate_response was called on its own and has returned
ValidatedAlone == pc \in { "validate_once", "validate_twice" }

\* C11: validate_response returns the no-context refusal for an empty chunk
\* list or a response holding a marker (in any case), else the response as it
\* is; the answer of query at Done is validate_response of the raw generated
\* text and the filtered chunks.
C11_ValidateAndAnswer ==
    /\ ValidatedAlone => final_response = Expected(raw_response, chunks)
    /\ AtDone =>
          /\ filtered_chunks # << >>
          /\ emitted[1].answer = Expected(raw_response, filtered_chunks)

\* scenario D: a marker in the generated text, chunks not empty
C11_Witness ==
    /\ AtDone
    /\ raw_response = "As an AI, I don't have access to real-time data"
    /\ filtered_chunks # << >>
    /\ emitted[1].answer = REFUSAL_NO_CONTEXT

\* C12: validate_response applied to its own result returns that result; the
\* no-context refusal holds no marker, so it comes back unchanged.
C12_ValidateIdempotent ==
    pc = "validate_twice" =>
        /\ ret[1] = final_response
        /\ final_response = REFUSAL_NO_CONTEXT => ret[1] = REFUSAL_NO_CONTEXT
        /\ ~ HasMarker(REFUSAL_NO_CONTEXT)

\* a response with a marker over a non-empty chunk list, validated twice
C12_Witness ==
    /\ pc = "validate_twice"
    /\ ret = Some(REFUSAL_NO_CONTEXT)
    /\ chunks # << >>
    /\ HasMarker(raw_response)
    /\ final_response = REFUSAL_NO_CONTEXT

----------------------------------------------------------------------------
(* api_server.py: get_pipeline called by concurrent request handlers *)

ServerInit ==
    /\ ServerIdle
    /\ settings = DefaultSettings
    /\ pc = "idle"
    /\ question = ""
    /\ company_terms = None
    /\ max_tokens = None
    /\ ret = None
    /\ Locals0

queryVars ==
    << settings, pc, question, company_terms, max_tokens, chunks,
       filtered_chunks, context, post, raw_response, final_response, emitted,
       raised, nSearch, nGenerate, trace, ret >>

\* a request (POST /query, GET /stats) reaches handler t, which calls get_pipeline
Request(t) ==
    /\ handlers[t].pc = "idle"
    /\ handlers[t].served < MaxRequests
    /\ handlers' = [handlers EXCEPT ![t].pc = "check"]
    /\ UNCHANGED << queryVars, _pipeline, constructed, returned >>

\* "if _pipeline is None:"
CheckNone(t) ==
    /\ handlers[t].pc = "check"
    /\ handlers' = [handlers EXCEPT ![t].pc =
                       IF _pipeline = None THEN "construct" ELSE "return"]
    /\ UNCHANGED << queryVars, _pipeline, constructed, returned >>

\* "RAGPipeline()": a new instance, not yet stored
Construct(t) ==
    /\ handlers[t].pc = "construct"
    /\ constructed' = constructed + 1
    /\ handlers' = [handlers EXCEPT ![t].pc = "assign", ![t].new = constructed + 1]
    /\ UNCHANGED << queryVars, _pipeline, returned >>

\* "_pipeline = ..."
Assign(t) ==
    /\ handlers[t].pc = "assign"
    /\ _pipeline' = Some(handlers[t].new)
    /\ handlers' = [handlers EXCEPT ![t].pc = "return"]
    /\ UNCHANGED << queryVars, constructed, returned >>

\* "return _pipeline"
Return(t) ==
    /\ handlers[t].pc = "return"
    /\ returned' = returned \cup { _pipeline[1] }
    /\ handlers' = [handlers EXCEPT ![t].pc = "idle", ![t].new = 0,
                                    ![t].served = handlers[t].served + 1]
    /\ UNCHANGED << queryVars, _pipeline, constructed >>

ServerNext ==
    \E t \in Handlers :
        \/ Request(t)
        \/ CheckNone(t)
        \/ Construct(t)
        \/ Assign(t)
        \/ Return(t)

ServerSpec == ServerInit /\ [][ServerNext]_vars

\* C14: whatever the interleaving of the handlers, RAGPipeline is constructed
\* at most once and every call of get_pipeline returns the same instance.
C14_SingleInstance ==
    /\ constructed <= 1
    /\ Cardinality(returned) <= 1

====
